---- MODULE Spec2Model ----
(***************************************************************************)
(* Event dispatch and command routing of pymino.ext.context:               *)
(* EventHandler (registry, command router, cooldowns, reply-wait cache)    *)
(* and Context.wait_for_message.                                           *)
(*                                                                         *)
(* Strings are sequences of one-character strings, so that slicing and     *)
(* split(" ") are computed as the code computes them.  Python's None for   *)
(* an identifier is the string "None"; an absent dictionary or cache key   *)
(* is a key outside the function's DOMAIN / no record of the set.          *)
(***************************************************************************)
EXTENDS Integers, Sequences, FiniteSets, TLC

VARIABLES
    command_prefix,   \* EventHandler.command_prefix
    intents,          \* EventHandler.intents (opt-in reply-wait feature)
    phase,            \* "setup" while handlers are registered, then "running"
    events,           \* EventHandler._events: event name -> handler
    commands,         \* EventHandler._commands: the registered Command entries
    cooldowns,        \* Commands' cooldown records: <<name, userId>> -> expiry
    cache,            \* the diskcache directory "cache": records key/value/expire
    now,              \* time(), in seconds
    th,               \* the threads running _handle_event, one record each
    lastRun,          \* history: <<name, userId>> -> time of the last set_cooldown
    registered        \* history: event name -> the handler registered last and
                      \* the handlers it replaced

vars == <<command_prefix, intents, phase, events, commands, cooldowns, cache,
          now, th, lastRun, registered>>

(***************************************************************************)
(* Bounds and inputs                                                       *)
(***************************************************************************)
MaxTime == 3

Threads == {"t1", "t2", "t3"}
Workers == {"t1", "t2"}
Users == {"A", "B"}
Chats == {"chat1"}
None == "None"

\* texts
Bang == <<"!">>
Ping == <<"p", "i", "n", "g">>
Pong == <<"p", "g">>
Say == <<"s", "a", "y">>
Help == <<"h", "e", "l", "p">>
Verify == <<"$", "v">>
Hello == <<"h", "i">>

(***************************************************************************)
(* Python string operations                                                *)
(***************************************************************************)
\* s[n:]
SliceFrom(s, n) == IF n >= Len(s) THEN <<>> ELSE SubSeq(s, n + 1, Len(s))

\* s[:n]
SliceTo(s, n) == IF n >= Len(s) THEN s ELSE SubSeq(s, 1, n)

\* s.split(" ")[0]
RECURSIVE FirstToken(_)
FirstToken(s) ==
    IF s = <<>> THEN <<>>
    ELSE IF Head(s) = " " THEN <<>>
    ELSE <<Head(s)>> \o FirstToken(Tail(s))

(***************************************************************************)
(* Commands (utilities.commands): the command table and cooldown records   *)
(***************************************************************************)
\* Command(func, name, description, usage, aliases, cooldown)
Command(name, description, aliases, cooldown, sig) ==
    [name |-> name, description |-> description, aliases |-> aliases,
     cooldown |-> cooldown, sig |-> sig]

\* Commands.__command_names__()
CommandNames(cmds) == {c.name : c \in cmds}

\* Commands.__command_aliases__(): alias -> canonical name
CommandAliases(cmds) == UNION {c.aliases : c \in cmds}

AliasOwner(cmds, a) == (CHOOSE c \in cmds : a \in c.aliases).name

\* Commands.fetch_command(name): the entry of a canonical name
HasCommand(cmds, name) == name \in CommandNames(cmds)

FetchCommand(cmds, name) == CHOOSE c \in cmds : c.name = name

\* Commands.fetch_cooldown(name, userId): the expiry, 0 without a record
FetchCooldown(cds, name, userId) ==
    IF <<name, userId>> \in DOMAIN cds THEN cds[<<name, userId>>] ELSE 0

\* Commands.set_cooldown(name, cooldown, userId): expiry = now + seconds
SetCooldownRecord(cds, name, cooldown, userId, t) ==
    [k \in DOMAIN cds \cup {<<name, userId>>} |->
        IF k = <<name, userId>> THEN t + cooldown ELSE cds[k]]

\* Commands.__help__(): the commands that have a description
HelpListing(cmds) ==
    {<<c.name, c.description>> : c \in {d \in cmds : d.description # None}}

\* Commands.add_command(command): no name or alias may collide
CanAddCommand(cmds, c) ==
    /\ c.name \notin CommandNames(cmds) \cup CommandAliases(cmds)
    /\ c.aliases \cap (CommandNames(cmds) \cup CommandAliases(cmds)) = {}
    /\ c.name \notin c.aliases

AddCommand(cmds, c) == cmds \cup {c}

(***************************************************************************)
(* diskcache.Cache as the code calls it                                    *)
(***************************************************************************)
CacheExpire == 90

\* f"{chatId}_{userId}"
CacheKey(chatId, userId) == <<chatId, userId>>

\* cache.get(key): the value of the live record of key, none when absent or expired
CacheGet(c, key, t) == {r.value : r \in {x \in c : x.key = key /\ x.expire > t}}

\* cache.clear(key): Cache.clear(retry) removes every item of the cache
CacheClear(c, key) == {}

\* cache.add(key, value, expire): stores only when key has no live record
CacheAdd(c, key, value, expire, t) ==
    IF CacheGet(c, key, t) # {} THEN c
    ELSE {x \in c : x.key # key}
            \cup {[key |-> key, value |-> value, expire |-> t + expire]}

\* _add_cache without the clear: add keeps the record the key already has
AddCacheNoClear(c, chatId, userId, content, t) ==
    CacheAdd(c, CacheKey(chatId, userId), content, CacheExpire, t)

\* EventHandler._add_cache(chatId, userId, content)
AddCache(c, chatId, userId, content, t) ==
    LET key == CacheKey(chatId, userId)
        c1 == IF CacheGet(c, key, t) # {} THEN CacheClear(c, key) ELSE c
    IN  CacheAdd(c1, key, content, CacheExpire, t)

(***************************************************************************)
(* Parameter resolver                                                      *)
(***************************************************************************)
\* values handed to a handler: <<tag, payload>>
PyNone == <<"None", <<>>>>
PyStr(s) == <<"str", s>>
NoText == <<None>>

\* what _set_parameters reads of the author: None, or username / userId
Username(author) == IF author = None THEN PyNone ELSE PyStr(<<"@", author>>)
UserId(author) == IF author = None THEN PyNone ELSE PyStr(<<author>>)

\* message if isinstance(message, str) else context.message.content
EffectiveMessage(override, content) ==
    IF override # NoText THEN PyStr(override)
    ELSE IF content = NoText THEN PyNone ELSE PyStr(content)

\* Member(context.author.json()) raises AttributeError without an author
SetParametersRaises(author) == author = None

\* the parameter names _set_parameters knows
Recognised(p) == p \in {"ctx", "member", "message", "username", "userId"}

\* a resolver that passes the recognised parameters only
SetParametersKnownOnly(author, content, sig, override) ==
    LET known == SelectSeq(sig, Recognised) IN
    [i \in 1..Len(known) |->
        CASE known[i] = "ctx" -> <<"ctx", content>>
          [] known[i] = "member" -> <<"member", <<author>>>>
          [] known[i] = "message" -> EffectiveMessage(override, content)
          [] known[i] = "username" -> Username(author)
          [] known[i] = "userId" -> UserId(author)]

\* EventHandler._set_parameters(context, func, message)
SetParameters(author, content, sig, override) ==
    [i \in 1..Len(sig) |->
        CASE sig[i] = "ctx" -> <<"ctx", content>>
          [] sig[i] = "member" -> <<"member", <<author>>>>
          [] sig[i] = "message" -> EffectiveMessage(override, content)
          [] sig[i] = "username" -> Username(author)
          [] sig[i] = "userId" -> UserId(author)
          [] OTHER -> PyNone]

(***************************************************************************)
(* Threads running EventHandler._handle_event                              *)
(***************************************************************************)
IdleThread ==
    [pc |-> "idle", ev |-> None, chat |-> None, author |-> None,
     content |-> <<>>,
     calls |-> <<>>,        \* handlers invoked for this event, with their arguments
     replies |-> <<>>,      \* context.reply requests the router issued
     exc |-> "none",        \* the exception that reached the caller of _handle_event
     emitted |-> FALSE,     \* the event went through emit(), not _handle_event
     swallowed |-> FALSE,   \* suppress(KeyError) ended the dispatch
     typed |-> <<>>,        \* command_name as typed
     cmd |-> <<>>,          \* command_name after alias resolution
     msg |-> <<>>,          \* message: the text after prefix and command
     order |-> <<>>,        \* iteration order of {"text_message", "_console_text_message"}
     ret |-> "idle",        \* where dispatch continues when the handler returns
     wexp |-> <<>>,         \* wait_for_message: message
     wtimeout |-> 0,        \* wait_for_message: timeout
     wstart |-> 0,          \* wait_for_message: start
     wres |-> "none",       \* wait_for_message: "message" (self.message) or "None"
     wvia |-> "none",       \* how the loop ended: "match", "mismatch" or "timeout"
     wcase |-> "none",      \* history of the wait, see Recorded and Polled
     wobs |-> "none",       \* history: what the last cache.get of the loop returned
     over |-> <<>>,         \* history: the slot's contents before _add_cache
     cat |-> -1,            \* history: the time of the cooldown test, -1 without one
     clast |-> -1]          \* history: lastRun of (command, author) at that test

RawEvents == {"user_online", "member_set_you_host", "member_set_you_cohost",
              "member_remove_your_cohost"}

TextEvents == {"text_message", "_console_text_message"}

\* the iteration orders of the set literal {"text_message", "_console_text_message"}
ForwardOrders == {<<"text_message", "_console_text_message">>,
                  <<"_console_text_message", "text_message">>}

\* EventHandler.command_exists(command_name)
CommandExists(cmds, name) ==
    \/ name \in CommandNames(cmds)
    \/ name \in CommandAliases(cmds)

\* data.content[len(self.command_prefix):].split(" ")[0]
CommandToken(prefix, content) == FirstToken(SliceFrom(content, Len(prefix)))

\* no test of the prefix
HasPrefixAlways(prefix, content) == TRUE

\* data.content[:len(self.command_prefix)] == self.command_prefix
HasPrefix(prefix, content) == SliceTo(content, Len(prefix)) = prefix

\* the help request is tested before the command table
NotRoutedHelpFirst(cmds, prefix, content) ==
    \/ ~CommandExists(cmds, CommandToken(prefix, content))
    \/ ~HasPrefix(prefix, content)
    \/ content = prefix \o Help

\* the first test of _handle_command: no command is routed
NotRouted(cmds, prefix, content) ==
    \/ ~CommandExists(cmds, CommandToken(prefix, content))
    \/ ~HasPrefix(prefix, content)

\* the token compared with the prefixed word
IsHelpRequestPrefixed(prefix, content) ==
    /\ CommandToken(prefix, content) = prefix \o Help
    /\ content = prefix \o Help

\* command_name == "help" and data.content == f"{self.command_prefix}help"
IsHelpRequest(prefix, content) ==
    /\ CommandToken(prefix, content) = Help
    /\ content = prefix \o Help

\* the slice without the + 1: the separating space stays in the message
CommandMessageWithSpace(prefix, content) ==
    SliceFrom(content, Len(prefix) + Len(CommandToken(prefix, content)))

\* data.content[len(self.command_prefix) + len(command_name) + 1:]
CommandMessage(prefix, content) ==
    SliceFrom(content, Len(prefix) + Len(CommandToken(prefix, content)) + 1)

\* no alias resolution: the typed token is looked up as it is
ResolveAliasNot(cmds, name) == name

\* dict(self._commands.__command_aliases__().copy()).get(command_name, command_name)
ResolveAlias(cmds, name) ==
    IF name \in CommandAliases(cmds) THEN AliasOwner(cmds, name) ELSE name

(***************************************************************************)
(* Registration (setup)                                                    *)
(***************************************************************************)
\* on_text_message(), on_member_join(), ...: self._events[name] = func
\* history of the registrations under name e: fn is the last one
Registration(e, fn) ==
    [k \in DOMAIN registered \cup {e} |->
        IF k # e THEN registered[k]
        ELSE IF e \in DOMAIN registered
        THEN [fn |-> fn,
              replaced |-> (registered[e].replaced \cup {registered[e].fn}) \ {fn}]
        ELSE [fn |-> fn, replaced |-> {}]]

\* a registration that keeps the handler the name already has
OnKeepFirst(e, fn, sig) ==
    /\ phase = "setup"
    /\ events' = IF e \in DOMAIN events THEN events
                 ELSE [k \in DOMAIN events \cup {e} |->
                        IF k = e THEN [fn |-> fn, sig |-> sig] ELSE events[k]]
    /\ registered' = Registration(e, fn)
    /\ UNCHANGED <<command_prefix, intents, phase, commands, cooldowns, cache,
                   now, th, lastRun>>

On(e, fn, sig) ==
    /\ phase = "setup"
    /\ events' = [k \in DOMAIN events \cup {e} |->
                    IF k = e THEN [fn |-> fn, sig |-> sig] ELSE events[k]]
    /\ registered' = Registration(e, fn)
    /\ UNCHANGED <<command_prefix, intents, phase, commands, cooldowns, cache,
                   now, th, lastRun>>

\* command(name, description, usage, aliases, cooldown)(func)
RegisterCommand(c) ==
    /\ phase = "setup"
    /\ CanAddCommand(commands, c)
    /\ commands' = AddCommand(commands, c)
    /\ UNCHANGED <<command_prefix, intents, phase, events, cooldowns, cache,
                   now, th, lastRun, registered>>

\* the bot starts receiving events
Start ==
    /\ phase = "setup"
    /\ phase' = "running"
    /\ UNCHANGED <<command_prefix, intents, events, commands, cooldowns, cache,
                   now, th, lastRun, registered>>

\* time passes
Tick ==
    /\ phase = "running"
    /\ now < MaxTime
    /\ now' = now + 1
    /\ UNCHANGED <<command_prefix, intents, phase, events, commands, cooldowns,
                   cache, th, lastRun, registered>>

(***************************************************************************)
(* Dispatch                                                                *)
(***************************************************************************)
config == <<command_prefix, intents, phase, events, commands, registered>>

\* what a handler does with its context: return, call wait_for_message, or raise
NoWait == [wait |-> FALSE, exp |-> <<>>, timeout |-> 0, raises |-> "none"]
Waits(exp, timeout) ==
    [wait |-> TRUE, exp |-> exp, timeout |-> timeout, raises |-> "none"]
Raises(e) == [wait |-> FALSE, exp |-> <<>>, timeout |-> 0, raises |-> e]

\* an exception leaves _handle_event: suppress(KeyError) swallows a KeyError only
Raise(r, e) ==
    IF e = "KeyError" THEN [r EXCEPT !.pc = "done", !.swallowed = TRUE]
    ELSE [r EXCEPT !.pc = "done", !.exc = e]

\* func(*args): the handler runs; dispatch goes on at retpc when it returns, and
\* what it raises leaves _handle_event
Invoke(r, ev, cmd, fn, args, retpc, b) ==
    LET called == [r EXCEPT !.calls = Append(@, [ev |-> ev, cmd |-> cmd, fn |-> fn,
                                                 args |-> args, raised |-> b.raises])]
    IN  IF b.raises # "none" THEN Raise(called, b.raises)
        ELSE [called EXCEPT !.pc = IF b.wait THEN "wait_begin" ELSE retpc,
                            !.ret = IF b.wait THEN retpc ELSE "idle",
                            !.wexp = b.exp,
                            !.wtimeout = b.timeout]

\* the transport layer calls _handle_event(event, data) on a thread
Receive(t, ev, chat, author, content) ==
    /\ phase = "running"
    /\ th[t].pc = "idle"
    /\ th' = [th EXCEPT ![t] = [IdleThread EXCEPT !.pc = "handle_event", !.ev = ev,
                                  !.chat = chat, !.author = author,
                                  !.content = content]]
    /\ UNCHANGED <<config, cooldowns, cache, now, lastRun>>

WaitingOn(u, key) ==
    /\ th[u].pc = "wait_poll"
    /\ CacheKey(th[u].chat, th[u].author) = key

\* a loop that never times out
InTimeForever(t0, timeout, t) == TRUE

\* while time() - start < timeout
InTime(t0, timeout, t) == t - t0 < timeout

\* History of a wait_for_message call, kept in wcase:
\*   "none"    the slot was empty when the call began, nothing was recorded since
\*   "one"     then one message, equal to the expected one, was recorded for the
\*             key before the timeout elapsed
\*   "polled"  then the call read the slot, before the timeout elapsed
\*   "stale"   a value was in the slot when the call began, nothing was recorded
\*             since
\*   "void"    anything else: another message was recorded, or another call on the
\*             key returned meanwhile
Recorded(w, content) ==
    IF InTime(w.wstart, w.wtimeout, now)
    THEN IF w.wcase = "none" /\ content = w.wexp THEN "one" ELSE "void"
    ELSE IF w.wcase = "none" THEN "none" ELSE "void"

Polled(w) == IF w.wcase = "one" THEN "polled" ELSE w.wcase

OtherReturned(w) == IF w.wcase = "none" THEN "none" ELSE "void"

\* _handle_event, the text_message part before _handle_command
HandleEvent(t) ==
    LET r == th[t]
        key == CacheKey(r.chat, r.author)
    IN
    /\ r.pc = "handle_event"
    /\ IF r.ev # "text_message"
       THEN /\ th' = [th EXCEPT ![t].pc = "dispatch"]
            /\ UNCHANGED cache
       ELSE IF ~(intents /\ ~CommandExists(commands, CommandToken(command_prefix, r.content)))
       THEN /\ th' = [th EXCEPT ![t].pc = "handle_command"]
            /\ UNCHANGED cache
       ELSE IF r.author = None
       THEN /\ th' = [th EXCEPT ![t] = Raise(r, "AttributeError")]
            /\ UNCHANGED cache
       ELSE /\ cache' = AddCache(cache, r.chat, r.author, r.content, now)
            /\ th' = [u \in Threads |->
                        IF u = t
                        THEN [r EXCEPT !.pc = "handle_command",
                                       !.over = <<CacheGet(cache, key, now)>>]
                        ELSE IF WaitingOn(u, key)
                        THEN [th[u] EXCEPT !.wcase = Recorded(th[u], r.content)]
                        ELSE th[u]]
    /\ UNCHANGED <<config, cooldowns, now, lastRun>>

HelpReply(listing) == [kind |-> "help", listing |-> listing, secs |-> 0]
CooldownReply(secs) == [kind |-> "cooldown", listing |-> {}, secs |-> secs]

\* _handle_command up to the cooldown check
HandleCommand(t, order) ==
    LET r == [th[t] EXCEPT !.over = <<>>]
        command_name == CommandToken(command_prefix, r.content)
    IN
    /\ r.pc = "handle_command"
    /\ th' = [th EXCEPT ![t] =
                IF NotRouted(commands, command_prefix, r.content)
                THEN IF IsHelpRequest(command_prefix, r.content)
                     THEN [r EXCEPT !.replies = Append(@, HelpReply(HelpListing(commands))),
                                    !.pc = "dispatch"]
                     ELSE IF \E e \in TextEvents : e \in DOMAIN events
                     THEN [r EXCEPT !.order = order, !.pc = "forward"]
                     ELSE [r EXCEPT !.pc = "dispatch"]
                ELSE IF ~HasPrefix(command_prefix, r.content)
                THEN [r EXCEPT !.pc = "dispatch"]
                ELSE [r EXCEPT !.typed = command_name,
                               !.msg = CommandMessage(command_prefix, r.content),
                               !.cmd = ResolveAlias(commands, command_name),
                               !.pc = "check_cooldown"]]
    /\ UNCHANGED <<config, cooldowns, cache, now, lastRun>>

\* the cooldown test with >= : a command stays blocked at the expiry itself
OnCooldownInclusive(cds, name, userId, t) == FetchCooldown(cds, name, userId) >= t

\* _check_cooldown: is the command on cooldown for the author?
OnCooldown(cds, name, userId, t) == FetchCooldown(cds, name, userId) > t

LastRunOf(name, userId) ==
    IF <<name, userId>> \in DOMAIN lastRun THEN lastRun[<<name, userId>>] ELSE -1

\* the cooldown is kept under the name as typed
CooldownNameTyped(r) == r.typed

\* the command_name _handle_command passes to _check_cooldown
CooldownName(r) == r.cmd

\* the test without the guard on the command's cooldown
CheckCooldownAlways(t) ==
    LET r == th[t] IN
    /\ r.pc = "check_cooldown"
    /\ th' = [th EXCEPT ![t] =
                IF r.author = None THEN Raise(r, "AttributeError")
                ELSE IF OnCooldown(cooldowns, CooldownName(r), r.author, now)
                THEN [r EXCEPT !.replies = Append(@, CooldownReply(
                                   FetchCooldown(cooldowns, CooldownName(r),
                                                 r.author) - now)),
                               !.pc = "dispatch",
                               !.cat = now, !.clast = LastRunOf(r.cmd, r.author)]
                ELSE [r EXCEPT !.pc = "set_cooldown",
                               !.cat = now, !.clast = LastRunOf(r.cmd, r.author)]]
    /\ UNCHANGED <<config, cooldowns, cache, now, lastRun>>

\* _check_cooldown, the test and the 403 reply
CheckCooldown(t) ==
    LET r == th[t]
        c == FetchCommand(commands, r.cmd)
    IN
    /\ r.pc = "check_cooldown"
    /\ th' = [th EXCEPT ![t] =
                IF c.cooldown > 0
                THEN IF r.author = None THEN Raise(r, "AttributeError")
                     ELSE IF OnCooldown(cooldowns, CooldownName(r), r.author, now)
                     THEN [r EXCEPT !.replies = Append(@, CooldownReply(
                                        FetchCooldown(cooldowns, CooldownName(r),
                                                      r.author) - now)),
                                    !.pc = "dispatch",
                                    !.cat = now, !.clast = LastRunOf(r.cmd, r.author)]
                     ELSE [r EXCEPT !.pc = "set_cooldown",
                                    !.cat = now, !.clast = LastRunOf(r.cmd, r.author)]
                ELSE [r EXCEPT !.pc = "call_command"]]
    /\ UNCHANGED <<config, cooldowns, cache, now, lastRun>>

\* one record for the command, whoever invokes it
CooldownUserShared(r) == "A"

\* the key of the cooldown record _check_cooldown writes
CooldownUser(r) == r.author

\* the record is not written before the handler is called
SetCooldownSkipped(t) ==
    LET r == th[t] IN
    /\ r.pc = "set_cooldown"
    /\ lastRun' = [k \in DOMAIN lastRun \cup {<<r.cmd, r.author>>} |->
                     IF k = <<r.cmd, r.author>> THEN now ELSE lastRun[k]]
    /\ th' = [th EXCEPT ![t].pc = "call_command"]
    /\ UNCHANGED <<config, cooldowns, cache, now>>

\* _check_cooldown, set_cooldown and the 200 answer
SetCooldown(t) ==
    LET r == th[t]
        c == FetchCommand(commands, r.cmd)
    IN
    /\ r.pc = "set_cooldown"
    /\ cooldowns' = SetCooldownRecord(cooldowns, CooldownName(r), c.cooldown,
                                      CooldownUser(r), now)
    /\ lastRun' = [k \in DOMAIN lastRun \cup {<<r.cmd, r.author>>} |->
                     IF k = <<r.cmd, r.author>> THEN now ELSE lastRun[k]]
    /\ th' = [th EXCEPT ![t].pc = "call_command"]
    /\ UNCHANGED <<config, cache, now>>

\* _handle_command: fetch_command(command_name).func(*_set_parameters(...))
CallCommand(t, b) ==
    LET r == th[t]
        c == FetchCommand(commands, r.cmd)
    IN
    /\ r.pc = "call_command"
    /\ th' = [th EXCEPT ![t] =
                IF SetParametersRaises(r.author) THEN Raise(r, "AttributeError")
                ELSE Invoke(r, "command", r.cmd, "command",
                            SetParameters(r.author, r.content, c.sig, r.msg),
                            "dispatch", b)]
    /\ UNCHANGED <<config, cooldowns, cache, now, lastRun>>

\* _handle_all_events(event, data, context)
HandleAllEvents(r, e, retpc, b) ==
    IF e \notin DOMAIN events THEN Raise(r, "KeyError")
    ELSE IF SetParametersRaises(r.author) THEN Raise(r, "AttributeError")
    ELSE Invoke(r, e, <<>>, events[e].fn,
                SetParameters(r.author, r.content, events[e].sig, NoText), retpc, b)

\* _handle_command: for event in {"text_message", "_console_text_message"}
Forward(t, b) ==
    LET r == th[t]
        rest == Tail(r.order)
    IN
    /\ r.pc = "forward"
    /\ th' = [th EXCEPT ![t] =
                HandleAllEvents([r EXCEPT !.order = rest], Head(r.order),
                                IF rest = <<>> THEN "dispatch" ELSE "forward", b)]
    /\ UNCHANGED <<config, cooldowns, cache, now, lastRun>>

\* _handle_event without the test: the handler is looked up whatever the registry
DispatchUnchecked(t, b) ==
    LET r == th[t] IN
    /\ r.pc = "dispatch"
    /\ th' = [th EXCEPT ![t] =
                IF r.ev \in RawEvents /\ r.ev \in DOMAIN events
                THEN Invoke(r, r.ev, <<>>, events[r.ev].fn, <<<<"data", r.content>>>>,
                            "done", NoWait)
                ELSE HandleAllEvents(r, r.ev, "done", b)]
    /\ UNCHANGED <<config, cooldowns, cache, now, lastRun>>

\* _handle_event: if event in self._events
Dispatch(t, b) ==
    LET r == th[t] IN
    /\ r.pc = "dispatch"
    /\ th' = [th EXCEPT ![t] =
                IF r.ev \notin DOMAIN events THEN [r EXCEPT !.pc = "done"]
                ELSE IF r.ev \in RawEvents
                THEN Invoke(r, r.ev, <<>>, events[r.ev].fn, <<<<"data", r.content>>>>,
                            "done", NoWait)
                ELSE HandleAllEvents(r, r.ev, "done", b)]
    /\ UNCHANGED <<config, cooldowns, cache, now, lastRun>>

\* emit(name, *args): self._events[name](*args) if name in self._events else None
Emit(t, name, args) ==
    /\ phase = "running"
    /\ th[t].pc = "idle"
    /\ th' = [th EXCEPT ![t] =
                LET r == [IdleThread EXCEPT !.ev = name, !.emitted = TRUE] IN
                IF name \in DOMAIN events
                THEN Invoke(r, name, <<>>, events[name].fn, args, "done", NoWait)
                ELSE [r EXCEPT !.pc = "done"]]
    /\ UNCHANGED <<config, cooldowns, cache, now, lastRun>>

\* _handle_event has returned (or raised); the thread takes the next event
Finish(t) ==
    /\ th[t].pc = "done"
    /\ th' = [th EXCEPT ![t] = IdleThread]
    /\ UNCHANGED <<config, cooldowns, cache, now, lastRun>>

(***************************************************************************)
(* Context.wait_for_message                                                *)
(***************************************************************************)
\* no test of the flag
WaitAlwaysAllowed(flag) == TRUE

\* if not self.intents: raise IntentsNotEnabled
WaitAllowed(flag) == flag

\* wait_for_message: the intents test and start = time()
WaitBegin(t) ==
    LET r == th[t] IN
    /\ r.pc = "wait_begin"
    /\ WaitAllowed(intents) => now + r.wtimeout <= MaxTime
    /\ th' = [th EXCEPT ![t] =
                IF ~WaitAllowed(intents) THEN Raise(r, "IntentsNotEnabled")
                ELSE [r EXCEPT !.pc = "wait_poll", !.wstart = now,
                               !.wcase = IF CacheGet(cache, CacheKey(r.chat, r.author),
                                                     now) # {}
                                         THEN "stale" ELSE "none"]]
    /\ UNCHANGED <<config, cooldowns, cache, now, lastRun>>

\* what cache.get returned: nothing, the expected message or another one
Observed(got, message) ==
    IF got = {} THEN "none" ELSE IF message \in got THEN "match" ELSE "mismatch"

\* the loop goes on when the slot holds another message
PollOutcomeLenient(got, message) == IF message \in got THEN "match" ELSE "none"

\* what one turn of the loop decides from cache.get: "match", "mismatch" or "none"
PollOutcome(got, message) ==
    IF message \in got THEN "match"
    ELSE IF got # {} THEN "mismatch"
    ELSE "none"

\* wait_for_message: one turn of the loop
WaitPoll(t) ==
    LET r == th[t]
        got == CacheGet(cache, CacheKey(r.chat, r.author), now)
        out == PollOutcome(got, r.wexp)
    IN
    /\ r.pc = "wait_poll"
    /\ th' = [th EXCEPT ![t] =
                IF ~InTime(r.wstart, r.wtimeout, now)
                THEN [r EXCEPT !.pc = "wait_clear", !.wvia = "timeout"]
                ELSE IF out = "none"
                THEN [r EXCEPT !.wcase = Polled(r), !.wobs = Observed(got, r.wexp)]
                ELSE [r EXCEPT !.pc = "wait_clear", !.wvia = out,
                               !.wobs = Observed(got, r.wexp)]]
    /\ UNCHANGED <<config, cooldowns, cache, now, lastRun>>

\* wait_for_message: cache.clear(key) and return
WaitClear(t) ==
    LET r == th[t]
        key == CacheKey(r.chat, r.author)
    IN
    /\ r.pc = "wait_clear"
    /\ cache' = CacheClear(cache, key)
    /\ th' = [u \in Threads |->
                IF u = t
                THEN [r EXCEPT !.pc = r.ret, !.ret = "idle",
                               !.wexp = <<>>, !.wtimeout = 0, !.wstart = 0,
                               !.wres = IF r.wvia = "match" THEN "message" ELSE "None"]
                ELSE IF WaitingOn(u, key)
                THEN [th[u] EXCEPT !.wcase = OtherReturned(th[u])]
                ELSE th[u]]
    /\ UNCHANGED <<config, cooldowns, now, lastRun>>

(***************************************************************************)
(* Specifications                                                          *)
(***************************************************************************)
\* the cooldown the modelled bot gives its cooldown-bearing commands
CooldownSeconds == 2

\* the state after EventHandler.__init__, for a prefix and an intents flag
InitWith(prefixes, flags) ==
    /\ command_prefix \in prefixes
    /\ intents \in flags
    /\ phase = "setup"
    /\ events = <<>>
    /\ commands = {}
    /\ cooldowns = <<>>
    /\ cache = {}
    /\ now = 0
    /\ th = [t \in Threads |-> IdleThread]
    /\ lastRun = <<>>
    /\ registered = <<>>

\* Routing: one thread dispatches text messages (commands by name and by alias,
\* the help request, plain text, text that lacks the prefix) and other events,
\* for every registration of a few commands and handlers
ExtraText == <<"e", "x", "t", "r", "a", " ", "t", "e", "x", "t">>

RouterCommands ==
    {Command(Ping, "pings", {Pong}, 0, <<"ctx", "message">>),
     Command(Say, None, {}, CooldownSeconds, <<"userId", "text", "message">>),
     Command(Help, "helps", {}, 0, <<"ctx">>)}

RouterHandlers ==
    {<<"text_message", "h1", <<"ctx">>>>,
     <<"text_message", "h2", <<"message", "username">>>>,
     <<"_console_text_message", "h3", <<"ctx">>>>,
     <<"member_join", "h4", <<"member", "userId", "other">>>>,
     <<"user_online", "h5", <<"data">>>>,
     <<"error", "h6", <<"ctx">>>>}

\* a handler returns, or raises a key-lookup error or another exception
RouterBehaviours == {NoWait, Raises("KeyError"), Raises("ValueError")}

\* the names the bot emits
EmittedEvents == {"text_message", "member_join", "error"}

\* a text as long as the prefix that is not the prefix
NoPrefix(prefix) == [i \in 1..Len(prefix) |-> "x"]

RouterContents(prefix) ==
    {prefix \o Ping,
     prefix \o Ping \o <<" ">> \o ExtraText,
     prefix \o Pong \o <<" ", "x">>,
     prefix \o Say,
     prefix \o Help,
     prefix \o Help \o <<" ", "x">>,
     NoPrefix(prefix) \o Ping,
     NoPrefix(prefix) \o Say,
     Hello}

Prefixes == {Bang, <<"/", "/">>}

Init == InitWith(Prefixes, BOOLEAN)

Next ==
    \/ \E c \in RouterCommands : RegisterCommand(c)
    \/ \E h \in RouterHandlers : On(h[1], h[2], h[3])
    \/ Start
    \/ \E s \in RouterContents(command_prefix) :
            Receive("t1", "text_message", "chat1", "A", s)
    \/ \E a \in {"A", None} : Receive("t1", "member_join", "chat1", a, NoText)
    \/ Receive("t1", "user_online", None, None, NoText)
    \/ HandleEvent("t1")
    \/ \E o \in ForwardOrders : HandleCommand("t1", o)
    \/ CheckCooldown("t1")
    \/ SetCooldown("t1")
    \/ \E b \in RouterBehaviours : CallCommand("t1", b)
    \/ Forward("t1", NoWait)
    \/ \E b \in RouterBehaviours : Dispatch("t1", b)
    \/ \E e \in EmittedEvents : Emit("t1", e, <<>>)
    \/ Finish("t1")

Spec == Init /\ [][Next]_vars

\* Cooldowns: two users invoke commands by name and by alias while time passes
CooldownCommands ==
    {Command(Ping, None, {Pong}, CooldownSeconds, <<"ctx", "message">>),
     Command(Say, None, {}, 0, <<"ctx">>)}

CooldownContents == {Bang \o Ping, Bang \o Pong \o <<" ", "x">>, Bang \o Say}

\* a command handler returns or raises
CooldownBehaviours == {NoWait, Raises("ValueError")}

InitCooldown == InitWith({Bang}, {FALSE})

NextCooldown ==
    \/ \E c \in CooldownCommands : RegisterCommand(c)
    \/ Start
    \/ Tick
    \/ \E t \in Workers, u \in Users, s \in CooldownContents :
            Receive(t, "text_message", "chat1", u, s)
    \/ \E t \in Workers : HandleEvent(t)
    \/ \E t \in Workers : HandleCommand(t, <<>>)
    \/ \E t \in Workers : CheckCooldown(t)
    \/ \E t \in Workers : SetCooldown(t)
    \/ \E t \in Workers, b \in CooldownBehaviours : CallCommand(t, b)
    \/ \E t \in Workers : Dispatch(t, NoWait)
    \/ \E t \in Workers : Finish(t)

SpecCooldown == InitCooldown /\ [][NextCooldown]_vars

\* Reply-wait: member_join handlers call ctx.wait_for_message while text
\* messages of two users are recorded
Timeouts == {1, 2}

WaitContents == {Verify, Hello}

WaitBehaviours == {Waits(Verify, k) : k \in Timeouts}

InitWait == InitWith({Bang}, BOOLEAN)

NextWait ==
    \/ On("member_join", "h1", <<"ctx">>)
    \/ Start
    \/ Tick
    \/ \E t \in Workers, u \in Users, s \in WaitContents :
            Receive(t, "text_message", "chat1", u, s)
    \/ \E t \in Workers, u \in Users : Receive(t, "member_join", "chat1", u, NoText)
    \/ \E t \in Workers : HandleEvent(t)
    \/ \E t \in Workers : HandleCommand(t, <<>>)
    \/ \E t \in Workers, b \in WaitBehaviours : Dispatch(t, b)
    \/ \E t \in Workers : WaitBegin(t)
    \/ \E t \in Workers : WaitPoll(t)
    \/ \E t \in Workers : WaitClear(t)
    \/ \E t \in Workers : Finish(t)

SpecWait == InitWait /\ [][NextWait]_vars

\* Reply-wait with fairness: time passes and a thread inside wait_for_message
\* keeps running.  One thread runs the waiting handlers, the other records.
NextWaitLive ==
    \/ On("member_join", "h1", <<"ctx">>)
    \/ Start
    \/ Tick
    \/ \E u \in Users, s \in WaitContents : Receive("t2", "text_message", "chat1", u, s)
    \/ \E u \in Users : Receive("t1", "member_join", "chat1", u, NoText)
    \/ \E t \in Workers : HandleEvent(t)
    \/ \E t \in Workers : HandleCommand(t, <<>>)
    \/ \E t \in Workers, b \in WaitBehaviours : Dispatch(t, b)
    \/ \E t \in Workers : WaitBegin(t)
    \/ \E t \in Workers : WaitPoll(t)
    \/ \E t \in Workers : WaitClear(t)
    \/ \E t \in Workers : Finish(t)

FairSpecWait ==
    /\ InitWith({Bang}, {TRUE})
    /\ [][NextWaitLive]_vars
    /\ WF_vars(Tick)
    /\ \A t \in Workers : WF_vars(WaitPoll(t)) /\ WF_vars(WaitClear(t))

\* Reply-wait race: two threads run handlers that wait for the same user's reply
\* while a third records that user's messages
NextRace ==
    \/ On("member_join", "h1", <<"ctx">>)
    \/ Start
    \/ Tick
    \/ \E t \in Workers : Receive(t, "member_join", "chat1", "A", NoText)
    \/ \E s \in WaitContents : Receive("t3", "text_message", "chat1", "A", s)
    \/ \E t \in Threads : HandleEvent(t)
    \/ \E t \in Threads : HandleCommand(t, <<>>)
    \/ \E t \in Threads, b \in WaitBehaviours : Dispatch(t, b)
    \/ \E t \in Threads : WaitBegin(t)
    \/ \E t \in Threads : WaitPoll(t)
    \/ \E t \in Threads : WaitClear(t)
    \/ \E t \in Threads : Finish(t)

SpecRace == InitWith({Bang}, {TRUE}) /\ [][NextRace]_vars

(***************************************************************************)
(* Claims: cooldowns                                                       *)
(***************************************************************************)
CommandCalls(r) == {i \in 1..Len(r.calls) : r.calls[i].ev = "command"}
CooldownReplies(r) == {i \in 1..Len(r.replies) : r.replies[i].kind = "cooldown"}

\* the router is through with the command of thread record r
CommandSettled(r) == r.cat >= 0 /\ r.pc \in {"dispatch", "done"} /\ r.exc = "none"

\* the test of r fell inside the window of the author's last non-blocked invocation
InWindow(r) ==
    /\ r.clast >= 0
    /\ r.cat < r.clast + FetchCommand(commands, r.cmd).cooldown

\* C1: for a command with cooldown c > 0, an invocation by u tested earlier than
\* t + c, t being u's last non-blocked invocation, does not call the handler and
\* sends one cooldown reply; an invocation tested at t + c or later, or with no
\* earlier invocation, calls the handler and sends no cooldown reply.
C1_CooldownWindow ==
    \A t \in Threads :
        LET r == th[t] IN
        CommandSettled(r) =>
            IF InWindow(r)
            THEN CommandCalls(r) = {} /\ Cardinality(CooldownReplies(r)) = 1
            ELSE Cardinality(CommandCalls(r)) = 1 /\ CooldownReplies(r) = {}

\* one invocation was blocked inside the window while another, tested at exactly
\* t + c, called the handler again
C1_Witness ==
    \E t, u \in Threads :
        /\ CommandSettled(th[t]) /\ InWindow(th[t]) /\ th[t].pc = "done"
        /\ th[t].cat > th[t].clast
        /\ CommandSettled(th[u]) /\ th[u].clast >= 0
        /\ th[u].cat = th[u].clast + CooldownSeconds
        /\ th[u].author = th[t].author
        /\ th[u].calls # <<>>

\* C2: cooldown records are per user: every record is the expiry of that user's own
\* last non-blocked invocation, and a blocked invocation was blocked by an earlier
\* invocation of the same user.
C2_PerUser ==
    /\ DOMAIN cooldowns = DOMAIN lastRun
    /\ \A k \in DOMAIN cooldowns :
            cooldowns[k] = lastRun[k] + FetchCommand(commands, k[1]).cooldown
    /\ \A t \in Threads :
            (CommandSettled(th[t]) /\ CooldownReplies(th[t]) # {}) => InWindow(th[t])

\* at the same time of test, A was blocked and B, invoking the same command, ran
C2_Witness ==
    \E t, u \in Threads :
        /\ CommandSettled(th[t]) /\ CooldownReplies(th[t]) # {}
        /\ CommandSettled(th[u]) /\ CommandCalls(th[u]) # {}
        /\ th[t].cmd = th[u].cmd
        /\ th[t].author # th[u].author
        /\ th[t].cat = th[u].cat
        /\ <<th[t].cmd, th[t].author>> \in DOMAIN cooldowns
        /\ <<th[u].cmd, th[u].author>> \in DOMAIN cooldowns

(***************************************************************************)
(* Claims: reply-wait                                                      *)
(***************************************************************************)
WaitEnded(r) == r.wvia # "none"

\* C3: with intents enabled, a wait_for_message call returns the triggering message
\* whenever a message equal to the expected one is recorded for its (chat, user)
\* before the timeout elapses and no other message is recorded for that key.
\* Stated for the calls that read the slot, in time, after that reply was recorded.
C3_ReplyDelivered ==
    \A t \in Threads :
        (WaitEnded(th[t]) /\ th[t].wcase = "polled") => th[t].wvia = "match"

\* the cache key of the context of thread record r
KeyOf(r) == CacheKey(r.chat, r.author)

InWait(r) == r.pc \in {"wait_poll", "wait_clear"}

\* C4: when the first value a call reads from its slot differs from the expected
\* message, the loop ends there, the call returns None and the slot is empty when
\* it returns; it does not go on waiting for a later matching message.
C4_MismatchEnds ==
    [][\A t \in Threads :
        /\ th'[t].wobs = "mismatch" =>
                /\ th'[t].pc # "wait_poll"
                /\ th'[t].wvia = "mismatch"
                /\ th'[t].wres # "message"
        /\ (th[t].pc = "wait_clear" /\ th'[t].pc # "wait_clear"
                /\ th[t].wobs = "mismatch") =>
                /\ th'[t].wres = "None"
                /\ CacheGet(cache', KeyOf(th[t]), now') = {}]_vars

\* a call ended on a mismatch while time remained before its timeout
C4_Witness ==
    \E t \in Threads :
        /\ th[t].pc = "wait_clear"
        /\ th[t].wobs = "mismatch"
        /\ th[t].wtimeout - (now - th[t].wstart) >= 1

\* C5: with intents enabled a call ends by match, mismatch or timeout only; it ends
\* by timeout only once the timeout has elapsed; when the slot was empty at its
\* start and nothing was recorded for its key before the timeout elapsed, it ends
\* by timeout and returns None; and every call eventually returns, at once when
\* the timeout has elapsed.
C5_EndsOnly(r) ==
    /\ r.pc = "wait_clear" =>
            /\ r.wvia \in {"match", "mismatch", "timeout"}
            /\ r.wvia = "timeout" => now - r.wstart >= r.wtimeout
            /\ r.wcase = "none" => r.wvia = "timeout"
    /\ (WaitEnded(r) /\ r.wcase = "none") => r.wres # "message"

C5_WaitReturns ==
    /\ [](\A t \in Threads : C5_EndsOnly(th[t]))
    /\ \A t \in Threads : (th[t].pc = "wait_poll") ~> ~InWait(th[t])
    /\ \A t \in Threads :
            (th[t].pc = "wait_poll" /\ now - th[t].wstart >= th[t].wtimeout)
                ~> ~InWait(th[t])

\* a call with nothing recorded returned None after its timeout had elapsed
C5_Witness ==
    \E t \in Threads :
        /\ th[t].pc = "done"
        /\ th[t].wvia = "timeout"
        /\ th[t].wcase = "none"
        /\ th[t].wres = "None"

\* C6: with intents disabled wait_for_message raises IntentsNotEnabled at once: no
\* time passes, the cache is neither read nor cleared, and the loop is never entered.
C6_IntentsRequired ==
    [][~intents =>
        \A t \in Threads :
            /\ ~InWait(th'[t])
            /\ (th[t].pc = "wait_begin" /\ th'[t].pc # "wait_begin") =>
                    /\ th'[t].pc = "done"
                    /\ th'[t].exc = "IntentsNotEnabled"
                    /\ th'[t].wvia = "none" /\ th'[t].wobs = "none"
                    /\ cache' = cache
                    /\ now' = now]_vars

\* a handler's wait_for_message call raised IntentsNotEnabled
C6_Witness ==
    /\ ~intents
    /\ \E t \in Threads :
            /\ th[t].pc = "done"
            /\ th[t].exc = "IntentsNotEnabled"
            /\ th[t].calls # <<>>

\* C7: the slot of a (chat, user) key is a one-slot mailbox: right after a message is
\* recorded the cache holds one record for the key, with that message's content,
\* whatever the slot held before.
C7_Mailbox ==
    [][\A t \in Threads :
        (th[t].pc = "handle_event" /\ th'[t].pc = "handle_command"
            /\ th'[t].over # <<>>) =>
            {x \in cache' : x.key = KeyOf(th[t])}
                = {[key |-> KeyOf(th[t]), value |-> th[t].content,
                    expire |-> now + CacheExpire]}]_vars

\* a second message of the user replaced the first, unread one
C7_Witness ==
    \E t \in Threads :
        /\ th[t].pc = "handle_command"
        /\ th[t].over = <<{Hello}>>
        /\ th[t].content = Verify
        /\ CacheGet(cache, KeyOf(th[t]), now) = {Verify}

(***************************************************************************)
(* Claims: command routing                                                 *)
(***************************************************************************)
\* the names a registered command can be typed with
TypedNames(c) == {c.name} \cup c.aliases

\* content is prefix, token, and then nothing or one space and rest
Follows(content, prefix, token, rest) ==
    \/ content = prefix \o token \o <<" ">> \o rest
    \/ rest = <<>> /\ content = prefix \o token

Tokens == {Ping, Pong, Say, Help, Hello, <<>>}

\* C9: alias resolution maps every alias of a registered command to the canonical
\* name of that command and every other token to itself; a command routed from a
\* typed alias is the owning command, and it is that command's handler that runs.
C9_AliasResolution ==
    /\ \A c \in commands : \A a \in c.aliases : ResolveAlias(commands, a) = c.name
    /\ \A k \in Tokens \ CommandAliases(commands) : ResolveAlias(commands, k) = k
    /\ \A t \in Threads :
        LET r == th[t] IN
        /\ r.pc = "check_cooldown" =>
                \E c \in commands : r.typed \in TypedNames(c) /\ r.cmd = c.name
        /\ \A i \in CommandCalls(r) :
                \E c \in commands :
                    /\ r.typed \in TypedNames(c)
                    /\ r.calls[i].cmd = c.name
                    /\ Len(r.calls[i].args) = Len(c.sig)

\* a message typed with the alias ran the handler of the owning command
C9_Witness ==
    \E t \in Threads :
        /\ th[t].typed = Pong
        /\ \E i \in CommandCalls(th[t]) : th[t].calls[i].cmd = Ping

\* the router is through with the text message of thread record r
Routed(r) ==
    /\ r.ev = "text_message"
    /\ r.pc \in {"forward", "dispatch", "done"} \/ InWait(r) \/ r.pc = "wait_begin"
    /\ r.exc = "none"

\* C10: when no command is named or aliased "help", a text message that is exactly
\* prefix + "help" gets one reply from the router, the help listing, and the listing
\* names exactly the registered commands that have a description.
C10_HelpListing ==
    \A t \in Threads :
        LET r == th[t] IN
        (Routed(r) /\ r.content = command_prefix \o Help
            /\ ~CommandExists(commands, Help)) =>
            /\ Len(r.replies) = 1
            /\ r.replies[1].kind = "help"
            /\ {x[1] : x \in r.replies[1].listing}
                    = {c.name : c \in {d \in commands : d.description # None}}
            /\ \A x \in r.replies[1].listing :
                    x[2] = FetchCommand(commands, x[1]).description

\* the help request was answered with a listing that names the described command
\* and leaves out the one without a description
C10_Witness ==
    \E t \in Threads :
        /\ Routed(th[t])
        /\ th[t].content = command_prefix \o Help
        /\ Len(th[t].replies) = 1
        /\ th[t].replies[1].listing = {<<Ping, "pings">>}
        /\ Say \in CommandNames(commands)

(***************************************************************************)
(* Claims: dispatch                                                        *)
(***************************************************************************)
HelpReplies(r) == {i \in 1..Len(r.replies) : r.replies[i].kind = "help"}

\* C11: when a command named "help" is registered, a text message that is exactly
\* prefix + "help" runs that command's handler, once, and no text message is ever
\* answered with the built-in help listing.
C11_HelpCommand ==
    \A t \in Threads :
        LET r == th[t] IN
        (HasCommand(commands, Help) /\ r.ev = "text_message" /\ ~r.emitted) =>
            /\ HelpReplies(r) = {}
            /\ (Routed(r) /\ r.content = command_prefix \o Help) =>
                    /\ Cardinality(CommandCalls(r)) = 1
                    /\ \A i \in CommandCalls(r) : r.calls[i].cmd = Help

\* the help request ran the registered help command although described commands
\* were there to be listed
C11_Witness ==
    \E t \in Threads :
        /\ th[t].pc = "done"
        /\ th[t].content = command_prefix \o Help
        /\ \E i \in CommandCalls(th[t]) : th[t].calls[i].cmd = Help
        /\ th[t].replies = <<>>
        /\ HelpListing(commands) # {}

\* the content of r starts with the prefix and a known command name or alias
MatchesCommand(r) ==
    /\ SliceTo(r.content, Len(command_prefix)) = command_prefix
    /\ \E c \in commands : CommandToken(command_prefix, r.content) \in TypedNames(c)

\* the event of r has no handler; when it is a dispatched text message, it matches
\* no command, is not the help request, and the console handler is missing too
Unhandled(r) ==
    /\ r.ev # None
    /\ r.ev \notin DOMAIN events
    /\ (r.ev = "text_message" /\ ~r.emitted) =>
            /\ ~MatchesCommand(r)
            /\ r.content # command_prefix \o Help
            /\ "_console_text_message" \notin DOMAIN events

\* C12: dispatching or emitting an event that has no handler is a no-op: no handler
\* is invoked, no reply is sent, no exception is raised, and the registry, the
\* command table and the cooldown records stay as they are.
C12_NoHandlerNoOp ==
    /\ [](\A t \in Threads :
            Unhandled(th[t]) =>
                /\ th[t].calls = <<>>
                /\ th[t].replies = <<>>
                /\ th[t].exc = "none"
                /\ ~th[t].swallowed
                /\ th[t].pc \in {"handle_event", "handle_command", "dispatch", "done"})
    /\ [][\A t \in Threads :
            (Unhandled(th[t]) /\ th'[t] # th[t]) =>
                UNCHANGED <<events, commands, cooldowns>>]_vars

\* with commands and another handler registered, a plain text message went through
\* the dispatcher without a handler
C12_Witness ==
    \E t \in Threads :
        /\ th[t].pc = "done"
        /\ th[t].ev = "text_message"
        /\ ~th[t].emitted
        /\ th[t].content = Hello
        /\ Unhandled(th[t])
        /\ commands # {}
        /\ events # <<>>

\* C13: each event name has one handler, the one registered last under that name;
\* every invoked event handler is that one, never a handler it replaced.
C13_LastRegistrationWins ==
    /\ DOMAIN events = DOMAIN registered
    /\ \A e \in DOMAIN events : events[e].fn = registered[e].fn
    /\ \A t \in Threads :
        \A i \in (1..Len(th[t].calls)) \ CommandCalls(th[t]) :
            LET c == th[t].calls[i] IN
            /\ c.fn = registered[c.ev].fn
            /\ c.fn \notin registered[c.ev].replaced

\* the second handler registered for text_message ran, the first had been replaced
C13_Witness ==
    \E t \in Threads :
        \E i \in 1..Len(th[t].calls) :
            /\ th[t].calls[i].ev = "text_message"
            /\ th[t].calls[i].fn = "h2"
            /\ "h1" \in registered["text_message"].replaced

\* the calls of r that ran the handler registered for event e
EventCalls(r, e) == {i \in 1..Len(r.calls) : r.calls[i].ev = e}

\* C14: when a text message resolves to a registered command, the generic
\* text_message handler is not invoked for it, whether the command handler ran or
\* the invocation was blocked by the cooldown.
C14_CommandExclusive ==
    \A t \in Threads :
        LET r == th[t] IN
        (r.ev = "text_message" /\ ~r.emitted
            /\ (CommandCalls(r) # {} \/ CooldownReplies(r) # {})) =>
            EventCalls(r, "text_message") = {}

\* C15: one inbound event passed to the dispatcher results in at most one handler
\* invocation; in particular the text_message handler is invoked at most once for
\* one text message.
C15_OneInvocation ==
    \A t \in Threads :
        /\ Len(th[t].calls) <= 1
        /\ Cardinality(EventCalls(th[t], "text_message")) <= 1

\* what the resolver owes a parameter named p: message is the effective text
Resolved(r, p, message) ==
    CASE p = "ctx" -> <<"ctx", r.content>>
      [] p = "member" -> <<"member", <<r.author>>>>
      [] p = "message" -> message
      [] p = "username" -> <<"str", <<"@", r.author>>>>
      [] p = "userId" -> <<"str", <<r.author>>>>
      [] OTHER -> <<"None", <<>>>>

\* C16: a handler called through the resolver gets one value per declared parameter,
\* in declared order: context, member view, effective message text (the text after
\* the command for a command handler, the content or None otherwise), username and
\* userId for the recognised names, None for every other name.
C16_Resolver ==
    \A t \in Threads :
        LET r == th[t] IN
        \A i \in 1..Len(r.calls) :
            LET c == r.calls[i]
                sig == IF c.ev = "command" THEN FetchCommand(commands, c.cmd).sig
                       ELSE events[c.ev].sig
                message == IF c.ev = "command" THEN <<"str", r.msg>>
                           ELSE IF r.content = <<None>> THEN <<"None", <<>>>>
                           ELSE <<"str", r.content>>
            IN  (~r.emitted /\ c.ev \notin RawEvents) =>
                    /\ Len(c.args) = Len(sig)
                    /\ \A j \in 1..Len(sig) : c.args[j] = Resolved(r, sig[j], message)

\* handlers declaring an unrecognised name between recognised ones were called
C16_Witness ==
    /\ \E t \in Threads : \E i \in CommandCalls(th[t]) :
            /\ th[t].calls[i].cmd = Say
            /\ th[t].calls[i].args = <<<<"str", <<"A">>>>, <<"None", <<>>>>, <<"str", <<>>>>>>
    /\ "member_join" \in DOMAIN events

\* C17: for a text message that matches no command and is not the help request, a
\* registered text_message handler is invoked with that message, whatever the order
\* in which the two text event names are visited.
C17_TextForwarded ==
    \A t \in Threads :
        LET r == th[t] IN
        (r.pc = "done" /\ r.ev = "text_message" /\ ~r.emitted
            /\ ~MatchesCommand(r)
            /\ r.content # command_prefix \o Help
            /\ "text_message" \in DOMAIN events) =>
            \E i \in EventCalls(r, "text_message") :
                r.calls[i].fn = events["text_message"].fn

\* C18: on the built-in help path the router sends the help reply and stops: no
\* handler is invoked for that message.
C18_HelpStops ==
    \A t \in Threads : HelpReplies(th[t]) # {} => th[t].calls = <<>>

\* C19: a text message is recorded into the reply-wait cache if and only if intents
\* are enabled and the message is not handled as a command, that is, it does not
\* start with the prefix followed by a known command name or alias.
C19_RecordedIff ==
    \A t \in Threads :
        LET r == th[t] IN
        (r.pc = "handle_command" /\ r.ev = "text_message") =>
            ((r.over # <<>>) <=> (intents /\ ~MatchesCommand(r)))

\* the dispatched text message of r does not start with the prefix
LacksPrefix(r) ==
    /\ r.ev = "text_message"
    /\ ~r.emitted
    /\ SliceTo(r.content, Len(command_prefix)) # command_prefix

\* C20: a text message that does not start with the prefix never reaches the
\* cooldown test or a command handler and leaves the cooldown records as they are,
\* also when the token after its first len(prefix) characters is a known command.
C20_PrefixRequired ==
    /\ [](\A t \in Threads :
            LacksPrefix(th[t]) =>
                /\ CommandCalls(th[t]) = {}
                /\ CooldownReplies(th[t]) = {}
                /\ th[t].cat = -1
                /\ th[t].pc \notin {"check_cooldown", "set_cooldown", "call_command"})
    /\ [][\A t \in Threads :
            (LacksPrefix(th[t]) /\ th'[t] # th[t]) => cooldowns' = cooldowns]_vars

\* a message that lacks the prefix, whose token is a command with a cooldown, went
\* through the dispatcher
C20_Witness ==
    \E t \in Threads :
        /\ th[t].pc = "done"
        /\ LacksPrefix(th[t])
        /\ th[t].content = NoPrefix(command_prefix) \o Say
        /\ HasCommand(commands, Say)
        /\ FetchCommand(commands, Say).cooldown > 0
        /\ <<Say, th[t].author>> \notin DOMAIN cooldowns

(***************************************************************************)
(* Claims: cooldown records                                                *)
(***************************************************************************)
\* the invocation of r passed the cooldown test of a command with a positive
\* cooldown and is through with set_cooldown
PastCooldown(r) == r.cat >= 0 /\ CooldownReplies(r) = {} /\ r.pc # "set_cooldown"

\* C21: for a non-blocked invocation of a command with positive cooldown the user's
\* record is written before the handler is called: from the moment the call is due,
\* and whatever the handler does (return or raise), the record is there and expires
\* no earlier than the cooldown after the test.
C21_CooldownBeforeCall ==
    \A t \in Threads :
        LET r == th[t] IN
        PastCooldown(r) =>
            /\ <<r.cmd, r.author>> \in DOMAIN cooldowns
            /\ cooldowns[<<r.cmd, r.author>>]
                    >= r.cat + FetchCommand(commands, r.cmd).cooldown

\* a handler raised, and a later invocation of the same user was blocked by the
\* record written before that call
C21_Witness ==
    \E t, u \in Threads :
        /\ th[t].pc = "done" /\ th[t].exc = "ValueError"
        /\ PastCooldown(th[t]) /\ CommandCalls(th[t]) # {}
        /\ th[t].clast = -1
        /\ th[u].author = th[t].author /\ th[u].cmd = th[t].cmd
        /\ CooldownReplies(th[u]) # {}
        /\ th[u].cat > th[t].cat

\* C22: a blocked invocation goes no further (no set_cooldown, no handler); the
\* cooldown records change only in the set_cooldown of a non-blocked invocation of
\* a command with positive cooldown, and only that user's record of that command; a
\* command with cooldown 0 is never tested, never blocked and has no record.
C22_RecordWrites ==
    /\ [](/\ \A t \in Threads :
                LET r == th[t] IN
                /\ CooldownReplies(r) # {} =>
                        /\ r.pc \in {"dispatch", "done"}
                        /\ CommandCalls(r) = {}
                /\ (r.cmd # <<>> /\ FetchCommand(commands, r.cmd).cooldown = 0) =>
                        /\ r.cat = -1
                        /\ CooldownReplies(r) = {}
                        /\ r.pc # "set_cooldown"
           /\ \A k \in DOMAIN cooldowns : FetchCommand(commands, k[1]).cooldown > 0)
    /\ [][cooldowns' # cooldowns =>
            \E t \in Threads :
                LET r == th[t] IN
                /\ r.pc = "set_cooldown" /\ th'[t].pc = "call_command"
                /\ CooldownReplies(r) = {}
                /\ FetchCommand(commands, r.cmd).cooldown > 0
                /\ \A k \in DOMAIN cooldowns :
                        k # <<r.cmd, r.author>> =>
                            k \in DOMAIN cooldowns' /\ cooldowns'[k] = cooldowns[k]]_vars

\* an invocation was blocked at a later time than the record was written, and the
\* record still holds the expiry of the non-blocked invocation; a command without
\* cooldown ran meanwhile
C22_Witness ==
    \E t, u \in Threads :
        LET r == th[t] IN
        /\ r.pc = "done" /\ CooldownReplies(r) # {}
        /\ r.cat > r.clast
        /\ cooldowns[<<r.cmd, r.author>>] = r.clast + CooldownSeconds
        /\ th[u].cmd = Say /\ CommandCalls(th[u]) # {}

\* C23: of two invocations of the same command with positive cooldown by the same
\* user, tested less than the cooldown apart, the handler runs for at most one.
C23_ConcurrentSafe ==
    \A t, u \in Threads :
        (/\ t # u
         /\ th[t].cat >= 0 /\ th[u].cat >= 0
         /\ th[t].cmd = th[u].cmd /\ th[t].author = th[u].author
         /\ th[t].cat - th[u].cat < FetchCommand(commands, th[t].cmd).cooldown
         /\ th[u].cat - th[t].cat < FetchCommand(commands, th[t].cmd).cooldown) =>
            ~(CommandCalls(th[t]) # {} /\ CommandCalls(th[u]) # {})

\* C30: the cooldown is kept per canonical command: every record is under a
\* canonical name, never under an alias, so an invocation typed with the name or
\* with any alias inside the window of the user's last non-blocked invocation of
\* that command, however that one was typed, is blocked.
C30_CanonicalCooldown ==
    /\ \A k \in DOMAIN cooldowns : k[1] \in CommandNames(commands)
    /\ \A t \in Threads :
            LET r == th[t] IN
            (CommandSettled(r) /\ InWindow(r)
                /\ r.typed \in TypedNames(FetchCommand(commands, r.cmd))) =>
                CooldownReplies(r) # {} /\ CommandCalls(r) = {}

\* the user's first invocation, by name, ran; the invocation by alias tested
\* after it was blocked
C30_Witness ==
    \E t, u \in Threads :
        /\ th[t].typed = Ping /\ CommandCalls(th[t]) # {} /\ th[t].clast = -1
        /\ th[u].typed = Pong /\ th[u].author = th[t].author
        /\ CommandSettled(th[u]) /\ InWindow(th[u])
        /\ CooldownReplies(th[u]) # {}
        /\ DOMAIN cooldowns = {<<Ping, th[t].author>>}

(***************************************************************************)
(* Claims: errors during dispatch                                          *)
(***************************************************************************)
\* an exception was raised while the event of r was dispatched
RaisedInDispatch(r) == ~r.emitted /\ (r.exc # "none" \/ r.swallowed)

\* C25: with an "error" handler registered, an exception raised while an event is
\* dispatched is forwarded to that handler and does not reach the caller of the
\* dispatcher.
C25_ErrorForwarded ==
    \A t \in Threads :
        LET r == th[t] IN
        (r.pc = "done" /\ RaisedInDispatch(r) /\ "error" \in DOMAIN events) =>
            /\ r.exc = "none"
            /\ EventCalls(r, "error") # {}

\* C26: an exception raised inside a registered handler, a key-lookup error
\* included, is not silently discarded by the dispatcher: it reaches the caller.
C26_HandlerErrorsKept ==
    \A t \in Threads :
        LET r == th[t] IN
        \A i \in 1..Len(r.calls) :
            (~r.emitted /\ r.calls[i].raised # "none") => r.exc = r.calls[i].raised

\* C27: for an event without an author the resolver does not raise: the registered
\* handler is invoked, with None for its username and userId parameters.
C27_NoAuthor ==
    \A t \in Threads :
        LET r == th[t] IN
        (r.pc = "done" /\ ~r.emitted /\ r.ev = "member_join" /\ r.author = None
            /\ "member_join" \in DOMAIN events) =>
            /\ r.exc # "AttributeError"
            /\ \E i \in EventCalls(r, "member_join") :
                    \A j \in 1..Len(events["member_join"].sig) :
                        events["member_join"].sig[j] \in {"username", "userId"} =>
                            r.calls[i].args[j] = <<"None", <<>>>>

(***************************************************************************)
(* Claims: reply-wait cache                                                *)
(***************************************************************************)
\* C24: one recorded reply is consumed by at most one waiter: two calls waiting on
\* the same key for the same text, for which one matching message was recorded,
\* never both leave the loop with a match.
C24_SingleConsumer ==
    \A t, u \in Threads :
        (/\ t # u
         /\ th[t].pc = "wait_clear" /\ th[u].pc = "wait_clear"
         /\ KeyOf(th[t]) = KeyOf(th[u])
         /\ th[t].wexp = th[u].wexp
         /\ th[t].wcase = "one" /\ th[u].wcase = "one") =>
            ~(th[t].wvia = "match" /\ th[u].wvia = "match")

\* C28: a wait_for_message call that returns clears the entry of its own key only:
\* the entries of every other key are left as they are.
C28_ClearsOwnKey ==
    [][\A t \in Threads :
        (th[t].pc = "wait_clear" /\ th'[t].pc # "wait_clear") =>
            {x \in cache' : x.key # KeyOf(th[t])}
                = {x \in cache : x.key # KeyOf(th[t])}]_vars

\* C29: a call is resolved only by a message recorded after it began: when a value
\* was in the slot at its start and nothing was recorded for its key since, it
\* ends by timeout, not by a match or a mismatch.
C29_OnlyLaterMessages ==
    \A t \in Threads :
        (WaitEnded(th[t]) /\ th[t].wcase = "stale") => th[t].wvia = "timeout"

====
